---- MODULE Spec2Model ----
(***************************************************************************)
(* Entra ID -> Netskope SCIM group reconciliation (UpdateEntraUsers.py,    *)
(* the requests variant, and updateUsersURLlib3.py, the urllib3 variant).  *)
(* One run of main() is modelled as a sequential process: pc is the        *)
(* position in main() or in the function main() is currently calling, the  *)
(* servers' answers are the nondeterministic inputs of every request.      *)
(***************************************************************************)
EXTENDS Integers, Sequences, FiniteSets, TLC

VARIABLES
    variant,            \* which of the two source files runs
    pc,                 \* position of the run
    entra_group_id,     \* main: entra_group_id
    url,                \* get_entra_group_members: url (None once a page has no next link)
    rawFetched,         \* get_entra_group_members: every entry of data["value"] read so far, in page order
    members_data,       \* get_entra_group_members: members_data
    entraPages,         \* get_entra_group_members: page requests issued by this call
    entraFailed,        \* a page request of the member listing raised
    entra_users_map,    \* main: entra_users_map (displayName -> userPrincipalName)
    netskope_group_id,  \* main: netskope_group_id
    membersResp,        \* get_netskope_group_members: the response being processed
    netskope_users_list,\* get_netskope_group_members: the list returned to main
    netskope_set,       \* main: netskope_set
    missing_display_names, \* main: missing_display_names
    todo,               \* main: names the for loop of line 477 has not visited yet
    cur,                \* main: name / upn_to_find of the current iteration
    netskope_ids_to_add,\* main: netskope_ids_to_add
    start_index,        \* SCIM search: start_index
    searchLog,          \* SCIM search: the pages this call has received, in order
    sleeps,             \* SCIM search: time.sleep(1) calls made by this call
    searchResult,       \* SCIM search: the value returned to main
    lookups,            \* get_netskope_user_id calls completed so far: name, upn, returned id
    issued,             \* kinds of HTTP request issued so far in the run
    patches,            \* PATCH requests sent so far: group id and body
    warned,             \* names main printed a "NOT found in Netskope tenant" warning for
    printed,            \* final and report messages printed to the user so far
    raisedIn            \* position at which an exception that reached main's handler was raised

vars == <<variant, pc, entra_group_id, url, rawFetched, members_data, entraPages,
          entraFailed, entra_users_map, netskope_group_id, membersResp,
          netskope_users_list, netskope_set, missing_display_names, todo, cur, netskope_ids_to_add,
          start_index, searchLog, sleeps, searchResult, lookups, issued,
          patches, warned, printed, raisedIn>>

-----------------------------------------------------------------------------
(* Bounds of the environment *)

\* Entries the Entra member listing serves over all its pages.
MaxEntraEntries == 3
\* Pages the Entra member listing serves (the next-link chain is finite).
MaxEntraPages == 2
\* Full pages a SCIM collection may report: totalResults <= MaxPagesServed*count + 1.
MaxPagesServed == 2
\* Entries of the "members" list of the Netskope group response.
MaxMembers == 2

-----------------------------------------------------------------------------
(* Values *)

None == "None"          \* Python None
NoId == "NoId"          \* an entry without an "id" key
NoProbe == [name |-> "", id |-> NoId]
NoCur == [name |-> "", upn |-> ""]   \* main is not inside the for loop body

Variants == {"requests", "urllib3"}

\* page size of both SCIM searches
count == 100

NETSKOPE_GROUP_NAME == "Netskope"

DisplayNames == {"Alice A", "Bob B"}
NetskopeOnlyNames == {"Carol C"}

\* Entries of data["value"] of a members page: '@odata.type', displayName,
\* userPrincipalName. "" stands for a field that is absent or empty (both are
\* falsy for m.get).
UserType == "#microsoft.graph.user"
RawEntries ==
    { [type |-> UserType, displayName |-> "Alice A", userPrincipalName |-> "alice@x.com"],
      [type |-> UserType, displayName |-> "Alice A", userPrincipalName |-> "alice2@x.com"],
      [type |-> UserType, displayName |-> "Bob B",   userPrincipalName |-> "Bob@X.com"],
      [type |-> "#microsoft.graph.group", displayName |-> "Bob B", userPrincipalName |-> "Bob@X.com"],
      [type |-> UserType, displayName |-> "",        userPrincipalName |-> "alice@x.com"],
      [type |-> UserType, displayName |-> "Bob B",   userPrincipalName |-> ""] }

\* Sequences over S of length at most n.
SeqsUpTo(S, n) == UNION { [1..k -> S] : k \in 0..n }

EmptyMap == [x \in {} |-> None]

-----------------------------------------------------------------------------
(* The run *)

Init ==
    /\ variant \in Variants
    /\ pc = "token"
    /\ entra_group_id = None
    /\ url = None
    /\ rawFetched = <<>>
    /\ members_data = <<>>
    /\ entraPages = 0
    /\ entraFailed = FALSE
    /\ entra_users_map = EmptyMap
    /\ netskope_group_id = None
    /\ membersResp = [kind |-> "none", members |-> <<>>]
    /\ netskope_users_list = <<>>
    /\ netskope_set = {}
    /\ missing_display_names = {}
    /\ todo = {}
    /\ cur = NoCur
    /\ netskope_ids_to_add = <<>>
    /\ start_index = 0
    /\ searchLog = <<>>
    /\ sleeps = 0
    /\ searchResult = None
    /\ lookups = <<>>
    /\ issued = {}
    /\ patches = <<>>
    /\ warned = {}
    /\ printed = {}
    /\ raisedIn = None

\* Mutant: main has no handler, the exception leaves main.
Abort_Propagates ==
    /\ pc' = "crashed"
    /\ raisedIn' = pc
    /\ UNCHANGED printed

\* main's "except Exception" (the last statement of both variants): the
\* exception is logged and printed, and main returns.
Abort ==
    /\ pc' = "done"
    /\ printed' = printed \cup {"An error occurred"}
    /\ raisedIn' = pc

EntraVars == <<entra_group_id, url, rawFetched, members_data, entraPages, entraFailed, entra_users_map>>
TargetVars == <<netskope_group_id, membersResp, netskope_users_list, netskope_set>>
ResolveVars == <<missing_display_names, todo, cur, netskope_ids_to_add, lookups, warned>>
SearchVars == <<start_index, searchLog, sleeps, searchResult>>

\* get_access_token: a token, or the raise of its else branch.
GetAccessToken ==
    /\ pc = "token"
    /\ \E ok \in BOOLEAN :
        IF ok THEN pc' = "entra_gid" /\ UNCHANGED <<printed, raisedIn>>
              ELSE Abort
    /\ UNCHANGED <<variant, EntraVars, TargetVars, ResolveVars, SearchVars, issued, patches>>

\* get_entra_group_id: one GET /groups; an HTTP or transport error raises, an
\* empty "value" returns None, otherwise groups[0]["id"] (a KeyError when the
\* first group has no id).
EntraGroupAnswers == {"error", "none", "one", "many", "noid"}
GetEntraGroupId ==
    /\ pc = "entra_gid"
    /\ issued' = issued \cup {[method |-> "GET", api |-> "entra", path |-> "groups"]}
    /\ \E a \in EntraGroupAnswers :
        CASE a \in {"error", "noid"} -> Abort /\ UNCHANGED entra_group_id
          [] a = "none" -> /\ pc' = "entra_members"
                           /\ entra_group_id' = None
                           /\ UNCHANGED <<printed, raisedIn>>
          [] OTHER      -> /\ pc' = "entra_members"
                           /\ entra_group_id' = "eg-1"
                           /\ UNCHANGED <<printed, raisedIn>>
    /\ UNCHANGED <<variant, url, rawFetched, members_data, entraPages, entraFailed,
                   entra_users_map, TargetVars, ResolveVars, SearchVars, patches>>

\* Mutant: the userPrincipalName test is left out.
KeepEntry_NoUpnCheck(m) ==
    /\ m.type = UserType
    /\ m.displayName # ""

\* The filter of the member loop: user-typed, displayName and userPrincipalName truthy.
KeepEntry(m) ==
    /\ m.type = UserType
    /\ m.displayName # ""
    /\ m.userPrincipalName # ""

\* The for loop over data["value"]: append the kept entries, reduced to the two fields.
RECURSIVE AppendKept(_, _)
AppendKept(acc, page) ==
    IF page = <<>> THEN acc
    ELSE AppendKept(
            IF KeepEntry(Head(page))
              THEN Append(acc, [displayName |-> Head(page).displayName,
                                userPrincipalName |-> Head(page).userPrincipalName])
              ELSE acc,
            Tail(page))

\* Mutant: get_entra_group_members without its "if not group_id" guard.
EntraMembersCall_NoGuard ==
    /\ pc = "entra_members"
    /\ pc' = "entra_page"
    /\ url' = "groups/id/members"
    /\ members_data' = <<>>
    /\ rawFetched' = <<>>
    /\ entraPages' = 0
    /\ UNCHANGED <<variant, raisedIn, entra_group_id, entraFailed, entra_users_map,
                   TargetVars, ResolveVars, SearchVars, issued, patches, printed>>

\* get_entra_group_members, entry: "if not group_id: return []", else the
\* first URL is set and the loop starts.
EntraMembersCall ==
    /\ pc = "entra_members"
    /\ pc' = IF entra_group_id = None THEN "entra_ret" ELSE "entra_page"
    /\ url' = IF entra_group_id = None THEN None ELSE "groups/id/members"
    /\ members_data' = <<>>
    /\ rawFetched' = <<>>
    /\ entraPages' = 0
    /\ UNCHANGED <<variant, raisedIn, entra_group_id, entraFailed, entra_users_map,
                   TargetVars, ResolveVars, SearchVars, issued, patches, printed>>

\* Mutant: the error ends the loop and the members read so far are returned.
EntraPageFailure_ReturnPartial ==
    /\ pc' = "entra_ret"
    /\ entraFailed' = TRUE
    /\ UNCHANGED <<url, rawFetched, members_data, printed, raisedIn>>

\* response.raise_for_status() / handle_urllib3_response raising inside the
\* loop: nothing catches it in the function (the urllib3 variant logs and
\* re-raises), main's handler ends the run.
EntraPageFailure ==
    /\ Abort
    /\ entraFailed' = TRUE
    /\ UNCHANGED <<url, rawFetched, members_data>>

\* One iteration of "while url": GET the page; raise_for_status (or
\* handle_urllib3_response) raises on an error and the exception leaves the
\* function and is caught by main; otherwise the page's entries are filtered
\* into members_data and url becomes the page's next link.
EntraMembersPage ==
    /\ pc = "entra_page"
    /\ issued' = issued \cup {[method |-> "GET", api |-> "entra", path |-> "members"]}
    /\ entraPages' = entraPages + 1
    /\ \/ EntraPageFailure
       \/ \E page \in SeqsUpTo(RawEntries, MaxEntraEntries - Len(rawFetched)) :
          \E nextLink \in {b \in BOOLEAN : b => entraPages + 1 < MaxEntraPages} :
            /\ rawFetched' = rawFetched \o page
            /\ members_data' = AppendKept(members_data, page)
            /\ url' = IF nextLink THEN "nextLink" ELSE None
            /\ pc' = IF nextLink THEN "entra_page" ELSE "entra_ret"
            /\ UNCHANGED <<entraFailed, printed, raisedIn>>
    /\ UNCHANGED <<variant, entra_group_id, entra_users_map,
                   TargetVars, ResolveVars, SearchVars, patches>>

\* The dict comprehension of main: later entries overwrite earlier ones with
\* the same displayName.
RECURSIVE BuildMap(_, _)
BuildMap(m, list) ==
    IF list = <<>> THEN m
    ELSE LET u == Head(list)
             d == DOMAIN m \cup {u.displayName}
         IN BuildMap([x \in d |-> IF x = u.displayName THEN u.userPrincipalName ELSE m[x]],
                     Tail(list))

\* main, after get_entra_group_members returned: entra_users_map and
\* entra_display_names are built, then get_netskope_group_id is called
\* (start_index = 1). entra_users_list is not read again.
EntraMembersReturn ==
    /\ pc = "entra_ret"
    /\ entra_users_map' = BuildMap(EmptyMap, members_data)
    /\ members_data' = <<>>
    /\ rawFetched' = <<>>
    /\ entraPages' = 0
    /\ url' = None
    /\ pc' = "ns_gid_page"
    /\ start_index' = 1
    /\ searchLog' = <<>>
    /\ sleeps' = 0
    /\ searchResult' = None
    /\ UNCHANGED <<variant, raisedIn, entra_group_id, entraFailed, TargetVars, ResolveVars,
                   issued, patches, printed>>

-----------------------------------------------------------------------------
(* The SCIM offset-paginated searches *)

PageSizes == {0, 1, count - 1, count}

\* totalResults values a server reports.
Totals == { t \in { k * count + d : k \in 0..MaxPagesServed, d \in {-1, 0, 1} } : t >= 0 }

GroupProbes == [name : {NETSKOPE_GROUP_NAME, "Other"}, id : {"g-1", NoId}]
UserProbes  == [name : {"alice@x.com", "ALICE2@X.COM", "bob@x.com", "zed@x.com"},
                id : {"id-1", "id-2", NoId}]

\* A page of a SCIM list response: n entries in "Resources", of which `probe`
\* is the only one that may match the search (the others have other names);
\* hasTotal says whether the body has a "totalResults" field; kind "error" is
\* an HTTP status >= 400 or a transport failure.
SearchResponses(probes) ==
    { [kind |-> "error", n |-> 0, hasTotal |-> FALSE, total |-> 0, probe |-> NoProbe] }
    \cup { r \in [kind : {"ok"}, n : PageSizes, hasTotal : BOOLEAN, total : Totals,
                  probe : probes \cup {NoProbe}] :
             /\ r.probe # NoProbe => r.n >= 1
             /\ ~r.hasTotal => r.total = 0 }

\* str.lower() on the user names of the model.
Lower(s) ==
    CASE s = "Bob@X.com" -> "bob@x.com"
      [] s = "ALICE2@X.COM" -> "alice2@x.com"
      [] OTHER -> s

\* The match test of the for loop: exact displayName for groups,
\* case-insensitive userName for users.
Matches(search, entry, target) ==
    IF search = "group" THEN entry.name = target
                        ELSE Lower(entry.name) = Lower(target)

\* Mutant: an absent totalResults puts no limit on the search.
TotalOf_AbsentIsNoLimit(resp) ==
    IF resp.hasTotal THEN resp.total ELSE (MaxPagesServed + 2) * count

\* data.get("totalResults", 0)
TotalOf(resp) == IF resp.hasTotal THEN resp.total ELSE 0

\* Mutant: only totalResults ends the search, a short page does not.
PageOutcome_NoSizeCheck(search, target, start, resp) ==
    IF resp.kind = "error" THEN "raise_request"
    ELSE IF resp.n = 0 THEN "return_none"
    ELSE IF Matches(search, resp.probe, target)
         THEN (IF resp.probe.id = NoId THEN "raise_key" ELSE "return_id")
    ELSE IF TotalOf(resp) < start + count THEN "return_none"
    ELSE "continue"

\* Mutant: only the length of the page ends the search.
PageOutcome_NoTotalCheck(search, target, start, resp) ==
    IF resp.kind = "error" THEN "raise_request"
    ELSE IF resp.n = 0 THEN "return_none"
    ELSE IF Matches(search, resp.probe, target)
         THEN (IF resp.probe.id = NoId THEN "raise_key" ELSE "return_id")
    ELSE IF resp.n < count THEN "return_none"
    ELSE "continue"

\* Mutant: "and" instead of "or" in the end-of-search test.
PageOutcome_And(search, target, start, resp) ==
    IF resp.kind = "error" THEN "raise_request"
    ELSE IF resp.n = 0 THEN "return_none"
    ELSE IF Matches(search, resp.probe, target)
         THEN (IF resp.probe.id = NoId THEN "raise_key" ELSE "return_id")
    ELSE IF TotalOf(resp) < start + count /\ resp.n < count THEN "return_none"
    ELSE "continue"

\* The body of one "while True" iteration after the request, in the order of the code.
PageOutcome(search, target, start, resp) ==
    IF resp.kind = "error" THEN "raise_request"
    ELSE IF resp.n = 0 THEN "return_none"
    ELSE IF Matches(search, resp.probe, target)
         THEN (IF resp.probe.id = NoId THEN "raise_key" ELSE "return_id")
    ELSE IF TotalOf(resp) < start + count \/ resp.n < count THEN "return_none"
    ELSE "continue"

\* Which exceptions the function turns into "return None": get_netskope_user_id
\* catches RequestException (requests) or Exception (urllib3);
\* get_netskope_group_id re-raises.
SwallowsIn(v, search, outcome) ==
    /\ search = "user"
    /\ outcome = "raise_request" \/ v = "urllib3"

\* The except clause of the variant that is running.
Swallows(search, outcome) == SwallowsIn(variant, search, outcome)

\* Mutant: the loop goes to the next page without time.sleep(1).
SearchPage_NoSleep(search, target, resp, pagePc, retPc) ==
    LET o == PageOutcome(search, target, start_index, resp) IN
    /\ searchLog' = Append(searchLog,
            [start |-> start_index, kind |-> resp.kind, n |-> resp.n,
             hasTotal |-> resp.hasTotal, total |-> resp.total,
             hit |-> resp.kind = "ok" /\ resp.n > 0 /\ Matches(search, resp.probe, target)])
    /\ CASE o = "continue" ->
              /\ start_index' = start_index + count
              /\ pc' = pagePc
              /\ UNCHANGED <<sleeps, searchResult, printed, raisedIn>>
         [] o = "return_id" ->
              /\ searchResult' = resp.probe.id
              /\ pc' = retPc
              /\ UNCHANGED <<start_index, sleeps, printed, raisedIn>>
         [] o = "return_none" \/ Swallows(search, o) ->
              /\ searchResult' = None
              /\ pc' = retPc
              /\ UNCHANGED <<start_index, sleeps, printed, raisedIn>>
         [] OTHER ->
              /\ Abort
              /\ UNCHANGED <<start_index, sleeps, searchResult>>

\* One page of a search: the request, the page's processing, and what follows.
SearchPage(search, target, resp, pagePc, retPc) ==
    LET o == PageOutcome(search, target, start_index, resp) IN
    /\ searchLog' = Append(searchLog,
            [start |-> start_index, kind |-> resp.kind, n |-> resp.n,
             hasTotal |-> resp.hasTotal, total |-> resp.total,
             hit |-> resp.kind = "ok" /\ resp.n > 0 /\ Matches(search, resp.probe, target)])
    /\ CASE o = "continue" ->
              /\ start_index' = start_index + count
              /\ sleeps' = sleeps + 1
              /\ pc' = pagePc
              /\ UNCHANGED <<searchResult, printed, raisedIn>>
         [] o = "return_id" ->
              /\ searchResult' = resp.probe.id
              /\ pc' = retPc
              /\ UNCHANGED <<start_index, sleeps, printed, raisedIn>>
         [] o = "return_none" \/ Swallows(search, o) ->
              /\ searchResult' = None
              /\ pc' = retPc
              /\ UNCHANGED <<start_index, sleeps, printed, raisedIn>>
         [] OTHER ->
              /\ Abort
              /\ UNCHANGED <<start_index, sleeps, searchResult>>

\* get_netskope_group_id: one iteration of its loop.
NetskopeGroupPage ==
    /\ pc = "ns_gid_page"
    /\ issued' = issued \cup {[method |-> "GET", api |-> "netskope", path |-> "Groups"]}
    /\ \E resp \in SearchResponses(GroupProbes) :
          SearchPage("group", NETSKOPE_GROUP_NAME, resp, "ns_gid_page", "ns_gid_ret")
    /\ UNCHANGED <<variant, EntraVars, TargetVars, ResolveVars, patches>>

\* main: netskope_group_id = get_netskope_group_id(...), then
\* get_netskope_group_members is called.
NetskopeGroupReturn ==
    /\ pc = "ns_gid_ret"
    /\ netskope_group_id' = searchResult
    /\ start_index' = 0
    /\ searchLog' = <<>>
    /\ sleeps' = 0
    /\ searchResult' = None
    /\ pc' = "ns_members"
    /\ UNCHANGED <<variant, raisedIn, EntraVars, membersResp, netskope_users_list, netskope_set,
                   ResolveVars, issued, patches, printed>>

-----------------------------------------------------------------------------
(* The Netskope group's members and the diff *)

NoDisplay == "NoDisplay"    \* a member entry without a "display" key
NoMembers == "NoMembers"    \* a group response without a "members" key

\* The "display" values of the member entries served.
MemberEntries == DisplayNames \cup NetskopeOnlyNames \cup {NoDisplay}

\* The answer to GET /Groups/{id}?attributes=members: an error, a body
\* without "members", or a body with a "members" list.
MembersResponses ==
    { [kind |-> "error", members |-> <<>>], [kind |-> NoMembers, members |-> <<>>] }
    \cup { [kind |-> "members", members |-> l] : l \in SeqsUpTo(MemberEntries, MaxMembers) }
NoResponse == [kind |-> "none", members |-> <<>>]

\* Mutant: m['display'] is read from every member entry.
DisplayOf_NoFilter(members) == members

\* [m['display'] for m in members if 'display' in m]
RECURSIVE DisplayOf(_)
DisplayOf(members) ==
    IF members = <<>> THEN <<>>
    ELSE (IF Head(members) # NoDisplay THEN <<Head(members)>> ELSE <<>>)
         \o DisplayOf(Tail(members))

\* data.get("members", []) followed by the comprehension.
MemberNames(resp) == IF resp.kind = NoMembers THEN <<>> ELSE DisplayOf(resp.members)

\* set(list)
ToSet(l) == { l[i] : i \in DOMAIN l }

\* get_netskope_group_members: "if not group_id: return []" without a request;
\* otherwise one GET, an error raises (and main catches it), and the display
\* names of the members are returned.
GetNetskopeGroupMembers ==
    /\ pc = "ns_members"
    /\ IF netskope_group_id = None
         THEN /\ netskope_users_list' = <<>>
              /\ pc' = "ns_members_ret"
              /\ UNCHANGED <<membersResp, issued, printed, raisedIn>>
         ELSE /\ issued' = issued \cup {[method |-> "GET", api |-> "netskope", path |-> "Groups/id"]}
              /\ \E resp \in MembersResponses :
                    /\ membersResp' = resp
                    /\ IF resp.kind = "error"
                         THEN Abort /\ UNCHANGED netskope_users_list
                         ELSE /\ netskope_users_list' = MemberNames(resp)
                              /\ pc' = "ns_members_ret"
                              /\ UNCHANGED <<printed, raisedIn>>
    /\ UNCHANGED <<variant, EntraVars, netskope_group_id, netskope_set, ResolveVars,
                   SearchVars, patches>>

\* main: netskope_set = set(netskope_users_list); the list is not read again.
NetskopeMembersReturn ==
    /\ pc = "ns_members_ret"
    /\ netskope_set' = ToSet(netskope_users_list)
    /\ netskope_users_list' = <<>>
    /\ membersResp' = NoResponse
    /\ pc' = "diff"
    /\ UNCHANGED <<variant, raisedIn, EntraVars, netskope_group_id, ResolveVars, SearchVars,
                   issued, patches, printed>>

\* Mutant: the subtraction is forgotten.
SetMinus_KeepAll(S, T) == S

\* entra_display_names - netskope_set
SetMinus(S, T) == S \ T

\* main: the diff, the report, and the early return when nothing is missing;
\* otherwise netskope_ids_to_add = [] and the for loop starts.
Diff ==
    /\ pc = "diff"
    /\ LET missing == SetMinus(DOMAIN entra_users_map, netskope_set) IN
        /\ missing_display_names' = missing
        /\ IF missing # {}
             THEN /\ printed' = printed \cup {"Total users to potentially add"}
                  /\ todo' = missing
                  /\ pc' = "resolve"
             ELSE /\ printed' = printed \cup {"All users present"}
                  /\ todo' = {}
                  /\ pc' = "done"
    /\ netskope_ids_to_add' = <<>>
    /\ UNCHANGED <<variant, raisedIn, EntraVars, TargetVars, cur, lookups, warned, SearchVars,
                   issued, patches>>

-----------------------------------------------------------------------------
(* Resolution of the missing names and the PATCH *)

\* for name in missing_display_names (a set: any order): upn_to_find is read
\* from the map and get_netskope_user_id is called (start_index = 1).
ResolveNext ==
    /\ pc = "resolve"
    /\ todo # {}
    /\ \E name \in todo :
        /\ todo' = todo \ {name}
        /\ cur' = [name |-> name, upn |-> entra_users_map[name]]
    /\ start_index' = 1
    /\ searchLog' = <<>>
    /\ sleeps' = 0
    /\ searchResult' = None
    /\ pc' = "user_page"
    /\ UNCHANGED <<variant, raisedIn, EntraVars, TargetVars, missing_display_names,
                   netskope_ids_to_add, lookups, warned, issued, patches, printed>>

\* get_netskope_user_id: one iteration of its loop.
NetskopeUserPage ==
    /\ pc = "user_page"
    /\ issued' = issued \cup {[method |-> "GET", api |-> "netskope", path |-> "Users"]}
    /\ \E resp \in SearchResponses(UserProbes) :
          SearchPage("user", cur.upn, resp, "user_page", "user_ret")
    /\ UNCHANGED <<variant, EntraVars, TargetVars, ResolveVars, patches>>

\* Mutant: the result of the lookup is appended without the test.
Resolved_Always(id) == TRUE

\* "if netskope_id:" of the for loop
Resolved(id) == id # None

\* Mutant: a name whose lookup returned None is put back to be looked up
\* again, until it resolves.
ResolveRecord_RetryUnresolved ==
    /\ pc = "user_ret"
    /\ IF Resolved(searchResult)
         THEN /\ netskope_ids_to_add' = Append(netskope_ids_to_add, searchResult)
              /\ lookups' = Append(lookups, [name |-> cur.name, upn |-> cur.upn, id |-> searchResult])
              /\ UNCHANGED <<warned, todo>>
         ELSE /\ warned' = warned \cup {cur.name}
              /\ todo' = todo \cup {cur.name}
              /\ UNCHANGED <<netskope_ids_to_add, lookups>>
    /\ cur' = NoCur
    /\ start_index' = 0
    /\ searchLog' = <<>>
    /\ sleeps' = 0
    /\ searchResult' = None
    /\ pc' = "resolve"
    /\ UNCHANGED <<variant, raisedIn, EntraVars, TargetVars, missing_display_names,
                   issued, patches, printed>>

\* main: the rest of the loop body: append the id, or print the warning.
ResolveRecord ==
    /\ pc = "user_ret"
    /\ IF Resolved(searchResult)
         THEN /\ netskope_ids_to_add' = Append(netskope_ids_to_add, searchResult)
              /\ UNCHANGED warned
         ELSE /\ warned' = warned \cup {cur.name}
              /\ UNCHANGED netskope_ids_to_add
    /\ lookups' = Append(lookups, [name |-> cur.name, upn |-> cur.upn, id |-> searchResult])
    /\ cur' = NoCur
    /\ start_index' = 0
    /\ searchLog' = <<>>
    /\ sleeps' = 0
    /\ searchResult' = None
    /\ pc' = "resolve"
    /\ UNCHANGED <<variant, raisedIn, EntraVars, TargetVars, missing_display_names, todo,
                   issued, patches, printed>>

\* Mutant: the group id is not tested before the update.
ShouldPatch_NoGroupCheck(ids, group_id) == ids # <<>>

\* Mutant: the update is called whatever was resolved.
ShouldPatch_Always(ids, group_id) == TRUE

\* "if netskope_ids_to_add:" / "if netskope_group_id:" after the loop.
ShouldPatch(ids, group_id) == ids # <<>> /\ group_id # None

\* main, after the loop: call update_netskope_group, or print why not.
ResolveEnd ==
    /\ pc = "resolve"
    /\ todo = {}
    /\ IF ShouldPatch(netskope_ids_to_add, netskope_group_id)
         THEN /\ pc' = "patch"
              /\ printed' = printed \cup {"Attempting to add"}
         ELSE /\ pc' = "done"
              /\ printed' = printed \cup
                    {IF netskope_ids_to_add # <<>>
                       THEN "ERROR: Cannot update Netskope because the group was not found"
                       ELSE "No users to add to Netskope group"}
    /\ UNCHANGED <<variant, raisedIn, EntraVars, TargetVars, ResolveVars, SearchVars, issued, patches>>

\* Mutant: one "add" operation per id instead of one operation for all.
Payload_OnePerId(user_ids_to_add) ==
    [Operations |-> [i \in DOMAIN user_ids_to_add |->
                        [op |-> "add", path |-> "members",
                         value |-> << [value |-> user_ids_to_add[i]] >>]],
     schemas |-> << "urn:ietf:params:scim:api:messages:2.0:PatchOp" >>]

\* Mutant: the payload carries the first id only.
Payload_FirstOnly(user_ids_to_add) ==
    [Operations |-> << [op |-> "add", path |-> "members",
                        value |-> << [value |-> user_ids_to_add[1]] >>] >>,
     schemas |-> << "urn:ietf:params:scim:api:messages:2.0:PatchOp" >>]

\* Mutant: the operation replaces the member list instead of adding to it.
Payload_Replace(user_ids_to_add) ==
    [Operations |-> << [op |-> "replace", path |-> "members",
                        value |-> [i \in DOMAIN user_ids_to_add |-> [value |-> user_ids_to_add[i]]]] >>,
     schemas |-> << "urn:ietf:params:scim:api:messages:2.0:PatchOp" >>]

\* members_payload and patch_payload of update_netskope_group
Payload(user_ids_to_add) ==
    [Operations |-> << [op |-> "add", path |-> "members",
                        value |-> [i \in DOMAIN user_ids_to_add |-> [value |-> user_ids_to_add[i]]]] >>,
     schemas |-> << "urn:ietf:params:scim:api:messages:2.0:PatchOp" >>]

\* What the PATCH may answer: an HTTP status, or a transport exception.
PatchAnswers ==
    { [raised |-> FALSE, status |-> s] : s \in {200, 204, 400, 404, 500} }
    \cup { [raised |-> TRUE, status |-> 0] }

\* Mutant: only a 5xx status counts as a failure.
PatchSucceeded_Below500(answer) == ~answer.raised /\ answer.status < 500

\* raise_for_status() (requests) / "response.status < 400" (urllib3)
PatchSucceeded(answer) == ~answer.raised /\ answer.status < 400

\* What update_netskope_group prints after the PATCH: the success line, the
\* error line with the response body (an HTTP error status), or the error
\* line with the exception (a transport failure).
PatchReport(answer) ==
    IF PatchSucceeded(answer) THEN "SUCCESS: Sent request"
    ELSE IF answer.raised THEN "ERROR: Failed to update Netskope group. Error"
    ELSE "ERROR: Failed to update Netskope group. API Response"

\* update_netskope_group: the skip guard, the payload, one PATCH, and the
\* report of its result; nothing is raised to main.
UpdateNetskopeGroup ==
    /\ pc = "patch"
    /\ IF netskope_group_id = None \/ netskope_ids_to_add = <<>>
         THEN UNCHANGED <<issued, patches, printed>>
         ELSE /\ issued' = issued \cup {[method |-> "PATCH", api |-> "netskope", path |-> "Groups/id"]}
              /\ \E answer \in PatchAnswers :
                    /\ patches' = Append(patches,
                          [group |-> netskope_group_id, ids |-> netskope_ids_to_add,
                           body |-> Payload(netskope_ids_to_add), answer |-> answer])
                    /\ printed' = printed \cup {PatchReport(answer)}
    /\ pc' = "done"
    /\ UNCHANGED <<variant, raisedIn, EntraVars, TargetVars, ResolveVars, SearchVars>>

Next ==
    \/ GetAccessToken
    \/ GetEntraGroupId
    \/ EntraMembersCall
    \/ EntraMembersPage
    \/ EntraMembersReturn
    \/ NetskopeGroupPage
    \/ NetskopeGroupReturn
    \/ GetNetskopeGroupMembers
    \/ NetskopeMembersReturn
    \/ Diff
    \/ ResolveNext
    \/ NetskopeUserPage
    \/ ResolveRecord
    \/ ResolveEnd
    \/ UpdateNetskopeGroup

Spec == Init /\ [][Next]_vars

-----------------------------------------------------------------------------
(* Properties *)

AllNames == DisplayNames \cup NetskopeOnlyNames

\* The diff of main has been computed in this run.
DiffDone == printed \cap {"Total users to potentially add", "All users present"} # {}

UserLookupIssued == \E r \in issued : r.api = "netskope" /\ r.path = "Users"
NetskopeRequested == \E r \in issued : r.api = "netskope"

\* The ids get_netskope_user_id returned (not None), in the order of the calls.
RECURSIVE ReturnedIds(_)
ReturnedIds(lk) ==
    IF lk = <<>> THEN <<>>
    ELSE (IF Head(lk).id = None THEN <<>> ELSE <<Head(lk).id>>) \o ReturnedIds(Tail(lk))

\* C1: once main has computed the diff, a display name is in the missing set
\* exactly when it is an Entra member name and not a Netskope member name; and
\* when every Entra name is a Netskope name the missing set is empty, the run
\* is over, and it made no user lookup and sent no PATCH.
C1_DiffIsSetDifference ==
    DiffDone =>
        /\ \A n \in AllNames :
              n \in missing_display_names
                  <=> (n \in DOMAIN entra_users_map /\ n \notin netskope_set)
        /\ (\A n \in DOMAIN entra_users_map : n \in netskope_set) =>
              /\ missing_display_names = {}
              /\ pc = "done"
              /\ ~UserLookupIssued
              /\ lookups = <<>>
              /\ patches = <<>>

C1_Witness ==
    /\ DiffDone
    /\ pc = "done"
    /\ DOMAIN entra_users_map # {}
    /\ DOMAIN entra_users_map \subseteq netskope_set
    /\ netskope_set \ DOMAIN entra_users_map # {}
    /\ missing_display_names = {}

\* C2: the id list handed to update_netskope_group is, in call order, the ids
\* get_netskope_user_id returned for the missing names: one per name that
\* resolved, looked up by the name's principal name in the Entra map, none for
\* a name already in the Netskope group, none for a failed lookup.
C2_HandedIdsAreResolvedMissing ==
    \A k \in DOMAIN patches :
        /\ patches[k].ids = ReturnedIds(lookups)
        /\ Len(patches[k].ids) =
              Cardinality({ n \in missing_display_names :
                              \E i \in DOMAIN lookups : lookups[i].name = n /\ lookups[i].id # None })
        /\ \A i \in DOMAIN lookups :
              /\ lookups[i].name \in DOMAIN entra_users_map
              /\ lookups[i].name \notin netskope_set
              /\ lookups[i].upn = entra_users_map[lookups[i].name]
              /\ \A j \in DOMAIN lookups : lookups[j].name = lookups[i].name => j = i
        /\ \A i \in DOMAIN patches[k].ids : patches[k].ids[i] \notin {None, NoId}

C2_Witness ==
    /\ Len(patches) = 1
    /\ Len(lookups) = 2
    /\ Len(patches[1].ids) = 1
    /\ \E i \in DOMAIN lookups : lookups[i].id = None

\* The for loop of main visited every missing name (no lookup raised).
ResolutionEnded ==
    /\ DiffDone
    /\ missing_display_names # {}
    /\ todo = {}
    /\ Len(lookups) = Cardinality(missing_display_names)

\* C3: a PATCH has been sent only if some lookup returned an id and the
\* Netskope group id was found; a run that ended its resolution loop without
\* both is over without a PATCH, with the message that says which one failed.
C3_PatchOnlyIfResolvedAndGroup ==
    /\ patches # <<>> =>
          /\ ReturnedIds(lookups) # <<>>
          /\ netskope_group_id # None
    /\ (pc = "done" /\ ResolutionEnded
          /\ ~(ReturnedIds(lookups) # <<>> /\ netskope_group_id # None)) =>
          /\ patches = <<>>
          /\ IF ReturnedIds(lookups) = <<>>
               THEN "No users to add to Netskope group" \in printed
               ELSE "ERROR: Cannot update Netskope because the group was not found" \in printed

C3_Witness ==
    /\ pc = "done"
    /\ ResolutionEnded
    /\ ReturnedIds(lookups) # <<>>
    /\ netskope_group_id = None
    /\ patches = <<>>
    /\ "ERROR: Cannot update Netskope because the group was not found" \in printed

\* C4: a run sends at most one PATCH; the run is over once it is sent, whatever
\* the answer; and its single operation carries every id resolved in the run.
C4_SinglePatchWithAllIds ==
    /\ Len(patches) <= 1
    /\ patches # <<>> =>
          /\ pc = "done"
          /\ Len(patches[1].body.Operations) = 1
          /\ patches[1].body.Operations[1].value
                = [i \in DOMAIN ReturnedIds(lookups) |-> [value |-> ReturnedIds(lookups)[i]]]

C4_Witness ==
    /\ Len(patches) = 1
    /\ ~patches[1].answer.raised /\ patches[1].answer.status = 500
    /\ Len(patches[1].body.Operations[1].value) = 2
    /\ pc = "done"

\* C5 (as claimed): a lookup that fails to resolve never ends the run: while
\* main is inside the loop body the run is inside get_netskope_user_id or back
\* from it, and a run that found missing names ends with every one of them
\* looked up, a warning for each that returned None, and, when the group is
\* known and some id resolved, the PATCH sent.
C5_LookupFailureNeverAborts ==
    /\ cur # NoCur => pc \in {"user_page", "user_ret"}
    /\ (pc = "done" /\ DiffDone /\ missing_display_names # {}) =>
          /\ { lookups[i].name : i \in DOMAIN lookups } = missing_display_names
          /\ warned = { lookups[i].name : i \in { j \in DOMAIN lookups : lookups[j].id = None } }
          /\ (ReturnedIds(lookups) # <<>> /\ netskope_group_id # None) => Len(patches) = 1

\* The phases of a run.
Phase(p) ==
    CASE p \in {"token", "entra_gid", "entra_members", "entra_page", "entra_ret"} -> 1  \* FetchSource
      [] p \in {"ns_gid_page", "ns_gid_ret", "ns_members", "ns_members_ret"} -> 2       \* FetchTarget
      [] p = "diff" -> 3                                                                \* Diff
      [] p \in {"resolve", "user_page", "user_ret"} -> 4                                \* ResolveMissing
      [] p = "patch" -> 5                                                               \* Patch
      [] p = "done" -> 6                                                                \* Done

\* C6: every step of a run stays in its phase, enters the next one, or ends in
\* Done; ResolveMissing is entered from Diff with a non-empty missing set and
\* an empty one sends Diff to Done; Patch is entered from ResolveMissing with
\* a non-empty id list and an empty one sends ResolveMissing to Done; the first
\* Netskope request is issued by a step taken after the Entra listing returned.
C6_PhaseOrder ==
    [][ /\ Phase(pc') \in {Phase(pc), Phase(pc) + 1, 6}
        /\ Phase(pc') >= Phase(pc)
        /\ (Phase(pc) = 3 /\ Phase(pc') = 4) => missing_display_names' # {}
        /\ (Phase(pc) = 3 /\ missing_display_names' = {}) => Phase(pc') = 6
        /\ (Phase(pc) = 4 /\ Phase(pc') = 5) => netskope_ids_to_add # <<>>
        /\ (Phase(pc) = 4 /\ Phase(pc') # 4 /\ netskope_ids_to_add = <<>>) => Phase(pc') = 6
        /\ (NetskopeRequested' /\ ~NetskopeRequested) => (Phase(pc) >= 2 /\ ~entraFailed)
      ]_vars

C6_Witness ==
    /\ pc = "patch"
    /\ Len(lookups) = 2
    /\ netskope_set # {}

\* A search of a collection of N entries with no match, served faithfully:
\* page i starts at 1 + (i-1)*count, reports totalResults = N and holds the
\* entries of the collection from its start on, at most count of them.
PageOf(N, start) ==
    IF N - start + 1 <= 0 THEN 0
    ELSE IF N - start + 1 >= count THEN count ELSE N - start + 1

Faithful(log, N) ==
    \A i \in DOMAIN log :
        /\ log[i].kind = "ok"
        /\ log[i].hasTotal /\ log[i].total = N
        /\ ~log[i].hit
        /\ log[i].start = 1 + (i - 1) * count
        /\ log[i].n = PageOf(N, log[i].start)

Ceil(a, b) == (a + b - 1) \div b

SearchReturned == pc \in {"ns_gid_ret", "user_ret"}
Searching == pc \in {"ns_gid_page", "user_page"}

\* C7 (as claimed): a search that returns not-found from a faithful server
\* holding N entries has issued exactly ceil(N/count) page requests.
C7_CeilRequests ==
    \A N \in Totals :
        (SearchReturned /\ searchResult = None /\ Faithful(searchLog, N))
            => Len(searchLog) = Ceil(N, count)

\* C7 (amended): the same search has issued exactly ceil(N/count) page
\* requests when N >= 1 and exactly one request when N = 0, and never more
\* while it is still running.
C7_CeilRequestsOrOne ==
    \A N \in Totals :
        LET want == IF N = 0 THEN 1 ELSE Ceil(N, count) IN
        /\ (SearchReturned /\ Faithful(searchLog, N)) =>
              /\ searchResult = None
              /\ Len(searchLog) = want
        /\ (Searching /\ Faithful(searchLog, N)) => Len(searchLog) < want

C7_Witness ==
    /\ pc = "user_ret"
    /\ searchResult = None
    /\ Faithful(searchLog, 2 * count + 1)
    /\ Len(searchLog) = 3

\* A response that ends the search according to the claim: an empty page, or
\* a totalResults below startIndex + count.
Exhausted(e) ==
    /\ e.kind = "ok"
    /\ e.n = 0 \/ (e.hasTotal /\ e.total < e.start + count)

\* C8: in a search, a response with an empty page or a covered totalResults
\* is the last one the search receives: the search is over (returned or
\* raised) and no request follows it.
C8_NoRequestAfterExhausted ==
    \A i \in DOMAIN searchLog :
        Exhausted(searchLog[i]) => (i = Len(searchLog) /\ ~Searching)

C8_Witness ==
    /\ pc = "ns_gid_ret"
    /\ Len(searchLog) = 2
    /\ searchLog[2].n = count
    /\ searchLog[2].hasTotal /\ searchLog[2].total = 2 * count
    /\ ~searchLog[2].hit

\* The entries of a raw listing that are users with both fields, in order.
Valid(m) == m.type = UserType /\ m.displayName # "" /\ m.userPrincipalName # ""
RECURSIVE ValidOf(_)
ValidOf(raw) ==
    IF raw = <<>> THEN <<>>
    ELSE (IF Valid(Head(raw)) THEN <<Head(raw)>> ELSE <<>>) \o ValidOf(Tail(raw))

\* C9: when get_entra_group_members returns for a group, the last page it
\* read had no next link, and the list it returns holds, in page order, the
\* displayName and userPrincipalName of the fetched entries that are users
\* with both fields non-empty, and nothing else.
C9_MembersAreFilteredPages ==
    (pc = "entra_ret" /\ entra_group_id # None) =>
        /\ url = None
        /\ entraPages >= 1
        /\ Len(members_data) = Len(ValidOf(rawFetched))
        /\ \A i \in DOMAIN members_data :
              /\ members_data[i].displayName = ValidOf(rawFetched)[i].displayName
              /\ members_data[i].userPrincipalName = ValidOf(rawFetched)[i].userPrincipalName
              /\ members_data[i].displayName # ""
              /\ members_data[i].userPrincipalName # ""

C9_Witness ==
    /\ pc = "entra_ret"
    /\ entraPages = 2
    /\ Len(rawFetched) = 3
    /\ Len(members_data) = 1
    /\ \E i \in DOMAIN rawFetched : rawFetched[i].type # UserType
    /\ \E i \in DOMAIN rawFetched : rawFetched[i].userPrincipalName = ""

\* C10: once a page request of the Entra member listing has failed, the run is
\* over: no further page is requested, no list was returned to main (no map,
\* no diff), and no Netskope request and no PATCH was issued.
C10_ListingFailureEndsRun ==
    entraFailed =>
        /\ pc = "done"
        /\ ~ENABLED EntraMembersPage
        /\ entra_users_map = EmptyMap
        /\ ~DiffDone
        /\ missing_display_names = {}
        /\ ~NetskopeRequested
        /\ lookups = <<>>
        /\ patches = <<>>
        /\ "An error occurred" \in printed

C10_Witness ==
    /\ entraFailed
    /\ entraPages = 2
    /\ members_data # <<>>
    /\ pc = "done"

\* The positions of the whole-phase calls of main: get_access_token,
\* get_entra_group_id, get_entra_group_members, get_netskope_group_id,
\* get_netskope_group_members.
WholePhasePositions == {"token", "entra_gid", "entra_page", "ns_gid_page", "ns_members"}

\* C11: an exception raised by token acquisition, Entra group resolution,
\* Entra member listing, Netskope group resolution or Netskope member listing
\* is caught by main: the run is in Done with the error message printed,
\* nothing more can happen, and the run made no user lookup and sent no PATCH.
C11_PhaseFailureCaughtAtTop ==
    raisedIn \in WholePhasePositions =>
        /\ pc = "done"
        /\ "An error occurred" \in printed
        /\ ~ENABLED Next
        /\ ~UserLookupIssued
        /\ lookups = <<>>
        /\ patches = <<>>

C11_Witness ==
    /\ raisedIn = "ns_members"
    /\ pc = "done"
    /\ Cardinality(DOMAIN entra_users_map) = 2
    /\ netskope_group_id # None

\* C12: update_netskope_group, called by main (after "Attempting to add",
\* with a group id and a non-empty list), has sent exactly one PATCH when the
\* run is over and raised nothing to main; it printed the success line for a
\* 2xx status, the error line with the response body for a 4xx or 5xx status,
\* and the error line with the exception for a transport failure.
C12_PatchReportedNeverRaised ==
    /\ pc = "patch" => (netskope_group_id # None /\ netskope_ids_to_add # <<>>)
    /\ raisedIn # "patch"
    /\ (pc = "done" /\ "Attempting to add" \in printed) =>
          /\ Len(patches) = 1
          /\ raisedIn = None
          /\ "An error occurred" \notin printed
          /\ LET a == patches[1].answer
                 reports == printed \cap {"SUCCESS: Sent request",
                                          "ERROR: Failed to update Netskope group. Error",
                                          "ERROR: Failed to update Netskope group. API Response"}
             IN /\ (~a.raised /\ a.status >= 200 /\ a.status <= 299)
                      => reports = {"SUCCESS: Sent request"}
                /\ (~a.raised /\ a.status >= 400 /\ a.status <= 599)
                      => reports = {"ERROR: Failed to update Netskope group. API Response"}
                /\ a.raised
                      => reports = {"ERROR: Failed to update Netskope group. Error"}

C12_Witness ==
    /\ pc = "done"
    /\ Len(patches) = 1
    /\ ~patches[1].answer.raised /\ patches[1].answer.status = 404
    /\ "ERROR: Failed to update Netskope group. API Response" \in printed

\* C13: the body of a PATCH built from the id list handed to
\* update_netskope_group has exactly one operation, op "add" on path
\* "members", whose value list has the length of the id list and holds
\* {value: id} of the i-th id at position i; with the fixed schemas entry the
\* body is a function of the id list alone.
C13_PayloadShape ==
    \A k \in DOMAIN patches :
        LET ids == patches[k].ids
            body == patches[k].body
        IN /\ ids # <<>>
           /\ DOMAIN body = {"Operations", "schemas"}
           /\ Len(body.Operations) = 1
           /\ body.Operations[1].op = "add"
           /\ body.Operations[1].path = "members"
           /\ Len(body.Operations[1].value) = Len(ids)
           /\ \A i \in 1..Len(ids) : body.Operations[1].value[i] = [value |-> ids[i]]
           /\ body.schemas = << "urn:ietf:params:scim:api:messages:2.0:PatchOp" >>

C13_Witness ==
    /\ Len(patches) = 1
    /\ Len(patches[1].ids) = 2
    /\ patches[1].ids[1] # patches[1].ids[2]
    /\ patches[1].body.Operations[1].value[2] = [value |-> patches[1].ids[2]]

\* The run is inside a search that received its last page: it returned to
\* main, or its exception ended the run.
SearchOver == SearchReturned \/ raisedIn \in {"ns_gid_page", "user_page"}

\* C14: a search that has issued k page requests and is about to issue the
\* next one has paused k times (once after every page it went on from), and a
\* search that is over after k page requests has paused k - 1 times: one pause
\* between every two consecutive requests, none after the last.
C14_PauseBetweenPages ==
    /\ Searching => sleeps = Len(searchLog)
    /\ SearchOver => (Len(searchLog) >= 1 /\ sleeps = Len(searchLog) - 1)
    /\ \A i \in DOMAIN searchLog :
          i < Len(searchLog) => searchLog[i + 1].start = searchLog[i].start + count

C14_Witness ==
    /\ pc = "user_ret"
    /\ Len(searchLog) = 3
    /\ sleeps = 2
    /\ searchLog[3].kind = "error"

\* The display names carried by a "members" list.
Displayed(members) == { members[i] : i \in { j \in DOMAIN members : members[j] # NoDisplay } }

\* C15: a group response without "members" makes get_netskope_group_members
\* return the empty list and raise nothing; main's target set is the set of
\* "display" values of the member entries that have one (none when there is
\* no "members" field); and with an empty target set the missing set is every
\* Entra member display name.
C15_NoMembersIsEmptyTarget ==
    [][ /\ (pc = "ns_members" /\ membersResp'.kind = NoMembers) =>
              /\ pc' = "ns_members_ret"
              /\ netskope_users_list' = <<>>
              /\ raisedIn' = None
        /\ pc = "ns_members_ret" =>
              /\ netskope_set' = Displayed(membersResp.members)
              /\ membersResp.kind = NoMembers => netskope_set' = {}
              /\ pc' = "diff"
        /\ (pc = "diff" /\ netskope_set = {}) =>
              missing_display_names' = DOMAIN entra_users_map
      ]_vars

C15_Witness ==
    /\ pc = "ns_members_ret"
    /\ membersResp.kind = NoMembers
    /\ netskope_users_list = <<>>
    /\ netskope_group_id # None
    /\ Cardinality(DOMAIN entra_users_map) = 2

\* ---------------------------------------------------------------------
\* C16
\* What one loop iteration of a search does in variant v once the answer
\* resp has arrived: go on to the next page, return a value, or raise.
ExitIn(v, search, target, start, resp) ==
    LET o == PageOutcome(search, target, start, resp) IN
    CASE o = "continue" -> "continue"
      [] o = "return_id" -> resp.probe.id
      [] o = "return_none" \/ SwallowsIn(v, search, o) -> None
      [] OTHER -> "raise"

\* C16 (as stated): the two variants are equivalent up to transport. Both
\* are deterministic in the answers they receive and agree step for step
\* outside the searches, so the statement is that in every state a search
\* can be in, every answer the server may give makes the requests variant
\* and the urllib3 variant do the same thing (same next request or the
\* same end of the search), whichever of the two is running.
C16_VariantsAgree ==
    /\ pc = "ns_gid_page" =>
          \A resp \in SearchResponses(GroupProbes) :
             ExitIn("requests", "group", NETSKOPE_GROUP_NAME, start_index, resp)
               = ExitIn("urllib3", "group", NETSKOPE_GROUP_NAME, start_index, resp)
    /\ pc = "user_page" =>
          \A resp \in SearchResponses(UserProbes) :
             ExitIn("requests", "user", cur.upn, start_index, resp)
               = ExitIn("urllib3", "user", cur.upn, start_index, resp)

\* ---------------------------------------------------------------------
\* C17
\* The received page e calls for another page: it is non-empty, has no
\* matching entry, holds at least `count` entries and reports a
\* totalResults (0 when absent) of at least its startIndex plus `count`.
CallsForNext(e) ==
    /\ e.kind = "ok"
    /\ e.n > 0
    /\ ~e.hit
    /\ e.n >= count
    /\ (IF e.hasTotal THEN e.total ELSE 0) >= e.start + count

EntraGroupNotFound ==
    /\ entra_group_id = None
    /\ pc \notin {"token", "entra_gid"}
    /\ raisedIn \notin {"token", "entra_gid"}

EntraMembersRequested ==
    \E r \in issued : r.api = "entra" /\ r.path = "members"

\* C18: when the Entra group name matches no group, the run goes on: no
\* member request is made and the Entra map is empty; the run can only end
\* by a failure of the Netskope group resolution or member fetch, or at the
\* diff, after the Netskope group search (and, when that group exists, the
\* member fetch) has been performed, with an empty missing set and the
\* "all present" report; no user lookup and no PATCH is ever issued.
C18_EntraGroupNotFound ==
    EntraGroupNotFound =>
        /\ ~EntraMembersRequested
        /\ DOMAIN entra_users_map = {}
        /\ pc # "done" => ENABLED Next
        /\ pc \notin {"entra_page", "resolve", "user_page", "user_ret", "patch"}
        /\ raisedIn \in {None, "ns_gid_page", "ns_members"}
        /\ (pc = "done" /\ raisedIn = None) =>
              /\ \E r \in issued : r.api = "netskope" /\ r.path = "Groups"
              /\ netskope_group_id # None =>
                    \E r \in issued : r.api = "netskope" /\ r.path = "Groups/id"
              /\ "All users present" \in printed
        /\ missing_display_names = {}
        /\ "Total users to potentially add" \notin printed
        /\ ~UserLookupIssued
        /\ lookups = <<>>
        /\ patches = <<>>

\* The run ended with the "all present" report although the Netskope group
\* exists and has members.
C18_Witness ==
    /\ EntraGroupNotFound
    /\ pc = "done"
    /\ raisedIn = None
    /\ netskope_group_id # None
    /\ netskope_set # {}
    /\ "All users present" \in printed

\* ---------------------------------------------------------------------
\* C19
\* get_netskope_group_id has returned None (not-found, no error) and the
\* Entra group has at least one member.
NetskopeGroupNotFound ==
    /\ netskope_group_id = None
    /\ pc \in {"ns_members", "ns_members_ret", "diff", "resolve", "user_page",
               "user_ret", "patch", "done"}
    /\ raisedIn \notin {"token", "entra_gid", "entra_page", "ns_gid_page"}
    /\ DOMAIN entra_users_map # {}

\* C19 (as stated): when the Netskope group is not found and the Entra group
\* has members, no member request is made and the target set is empty, every
\* Entra display name is missing, the run ends only after a user lookup has
\* been made for each missing name (one per name), no PATCH is sent, and
\* the "group was not found" error is printed only if a lookup resolved.
C19_LookupsWithoutGroup ==
    NetskopeGroupNotFound =>
        /\ ~\E r \in issued : r.api = "netskope" /\ r.path = "Groups/id"
        /\ netskope_set = {}
        /\ DiffDone => missing_display_names = DOMAIN entra_users_map
        /\ pc = "done" =>
              /\ DiffDone
              /\ todo = {}
              /\ { lookups[i].name : i \in DOMAIN lookups } \cup
                    (IF cur = NoCur THEN {} ELSE {cur.name}) = missing_display_names
              /\ Len(lookups) + (IF cur = NoCur THEN 0 ELSE 1)
                    = Cardinality(missing_display_names)
        /\ pc # "patch"
        /\ patches = <<>>
        /\ "ERROR: Cannot update Netskope because the group was not found" \in printed
              => \E i \in DOMAIN lookups : lookups[i].id # None

\* ---------------------------------------------------------------------
\* C20
\* The principal name of the member listed last under a display name.
RECURSIVE LastUpn(_, _)
LastUpn(list, name) ==
    IF list = <<>> THEN None
    ELSE IF list[Len(list)].displayName = name THEN list[Len(list)].userPrincipalName
    ELSE LastUpn(SubSeq(list, 1, Len(list) - 1), name)

\* The lookups of the run: the completed ones and the one in progress or
\* ended by an exception.
LookupsMade == Len(lookups) + (IF cur = NoCur THEN 0 ELSE 1)

LastMemberWins ==
    pc = "entra_ret" =>
        /\ DOMAIN entra_users_map' = { members_data[i].displayName : i \in DOMAIN members_data }
        /\ \A name \in DOMAIN entra_users_map' :
              entra_users_map'[name] = LastUpn(members_data, name)

OneLookupPerName ==
    /\ \A i \in DOMAIN lookups :
          /\ lookups[i].name \in DOMAIN entra_users_map
          /\ lookups[i].upn = entra_users_map[lookups[i].name]
          /\ \A j \in DOMAIN lookups : lookups[j].name = lookups[i].name => j = i
          /\ cur # NoCur => cur.name # lookups[i].name
    /\ cur # NoCur => cur.upn = entra_users_map[cur.name]
    /\ \A k \in DOMAIN patches : patches[k].ids = ReturnedIds(lookups)
    /\ (pc = "done" /\ DiffDone) => LookupsMade = Cardinality(missing_display_names)

\* C20 (as stated): the map built from the member list keeps, for every
\* display name, the principal name of the member listed last; every lookup
\* uses the principal name the map has for its display name, no display name
\* is looked up twice, the ids of a PATCH are the ids those lookups returned,
\* and a run that has computed the missing set ends with as many user
\* lookups as there are distinct missing display names.
C20_LastWinsOneLookupPerName ==
    /\ [][LastMemberWins]_vars
    /\ []OneLookupPerName

\* ---------------------------------------------------------------------
\* C21
\* C21: a received page without a totalResults field and without a matching
\* entry is the last page of its search, whatever its size: the search
\* returns not-found after it and requests no further page.
C21_AbsentTotalEndsSearch ==
    \A i \in DOMAIN searchLog :
        (searchLog[i].kind = "ok" /\ ~searchLog[i].hasTotal /\ ~searchLog[i].hit) =>
            /\ i = Len(searchLog)
            /\ SearchReturned
            /\ searchResult = None
            /\ sleeps = Len(searchLog) - 1

\* A user search ended not-found at a full second page that had no match and
\* no totalResults field.
C21_Witness ==
    /\ pc = "user_ret"
    /\ Len(searchLog) = 2
    /\ searchLog[2].kind = "ok"
    /\ searchLog[2].n = count
    /\ ~searchLog[2].hasTotal
    /\ ~searchLog[2].hit
    /\ searchResult = None

\* ---------------------------------------------------------------------
\* C22
PatchRequest == [method |-> "PATCH", api |-> "netskope", path |-> "Groups/id"]

\* Display names that are members of the Netskope group but not of the
\* Entra group.
NetskopeOnly == netskope_set \ DOMAIN entra_users_map

\* C22: every request of a run is a GET except the PATCH on the Netskope
\* group, which is sent at most once, to the group id the search for the
\* configured name returned, with "add" operations on "members" only; the
\* users named in requests (the userName filter of a lookup, and through it
\* the ids of the PATCH) are members of the Entra group that are missing
\* from the Netskope group, never members of the Netskope group alone.
C22_OnlyPatchAddWrites ==
    /\ \A r \in issued : r.method = "GET" \/ r = PatchRequest
    /\ \A r \in issued : r.api = "entra" => r.method = "GET"
    /\ PatchRequest \in issued <=> patches # <<>>
    /\ Len(patches) <= 1
    /\ \A k \in DOMAIN patches :
          /\ patches[k].group = netskope_group_id
          /\ netskope_group_id # None
          /\ \A o \in DOMAIN patches[k].body.Operations :
                /\ patches[k].body.Operations[o].op = "add"
                /\ patches[k].body.Operations[o].path = "members"
          /\ patches[k].ids = ReturnedIds(lookups)
    /\ \A i \in DOMAIN lookups :
          /\ lookups[i].name \in DOMAIN entra_users_map
          /\ lookups[i].name \notin netskope_set
          /\ lookups[i].upn = entra_users_map[lookups[i].name]
    /\ cur # NoCur =>
          /\ cur.name \in DOMAIN entra_users_map \ netskope_set
          /\ cur.upn = entra_users_map[cur.name]

\* A PATCH was sent while the Netskope group has a member that the Entra
\* group does not have.
C22_Witness ==
    /\ pc = "done"
    /\ patches # <<>>
    /\ NetskopeOnly # {}
    /\ DOMAIN entra_users_map \cap netskope_set # {}
    /\ Len(lookups) = 1

\* ---------------------------------------------------------------------
\* C23
\* main is one sequential thread: whenever it has a next statement it runs
\* it, and every request it sends is answered (by a response or by a
\* failure).
FairSpec == Init /\ [][Next]_vars /\ WF_vars(Next)

\* C23: with every request answered, a finite next-link chain and bounded
\* totalResults, every run of main eventually reaches Done.
C23_RunTerminates == <>(pc = "done")

\* A run that went through every phase, made two lookups and sent the PATCH
\* has reached Done.
C23_Witness ==
    /\ pc = "done"
    /\ raisedIn = None
    /\ Len(lookups) = 2
    /\ patches # <<>>

====
